---------------------------- MODULE Spec2Model ----------------------------
(***************************************************************************)
(* A model of nonebot's configuration resolution (nonebot/config.py) and   *)
(* of the driver bootstrap and registry accessors (nonebot/__init__.py).   *)
(*                                                                         *)
(* Python values are tuples whose first element is the type tag:           *)
(*   <<"None">>, <<"str", s>>, <<"int", n>>, <<"list", seq of str>>,       *)
(*   <<"set", set of str>>, <<"dict", function>>.                          *)
(* Python dicts whose order does not matter are TLA+ functions; the bot    *)
(* registry, whose iteration order matters, is a sequence of entries.      *)
(***************************************************************************)
EXTENDS Integers, Sequences, FiniteSets, TLC

VARIABLES
    environ,    \* os.environ: raw name -> <<"str", s>>
    files,      \* the dotenv files on disk: path -> (raw key -> <<"str", s>> or <<"None">>)
    _driver,    \* the module global _driver: <<"None">> or <<"obj", i>>
    heap,       \* the live driver object, under its identity (empty before any)
    allocs,     \* how many driver objects have been constructed
    last,       \* what the most recent operation was and how it ended
    obs,        \* what the most recent init that got past its guard resolved
    pc,         \* the reader thread's position inside get_bot
    frame       \* the reader thread's locals inside get_bot

vars == <<environ, files, _driver, heap, allocs, last, obs, pc, frame>>

----------------------------------------------------------------------------
(* Python values and dicts *)

None == <<"None">>

Str(s) == <<"str", s>>

Kind(v) == v[1]

EmptyDict == <<>>

\* {**a, **b}
Merge(a, b) ==
    [k \in (DOMAIN a) \cup (DOMAIN b) |-> IF k \in DOMAIN b THEN b[k] ELSE a[k]]

\* dict.get(k), None when k is missing
Get(m, k) == IF k \in DOMAIN m THEN m[k] ELSE None

\* del m[k]
Del(m, k) == [x \in (DOMAIN m) \ {k} |-> m[x]]

\* m[k] = v
Put(m, k, v) == [x \in (DOMAIN m) \cup {k} |-> IF x = k THEN v ELSE m[x]]

\* str.lower() on the names the model uses
Lower(n) ==
    CASE n = "PORT" -> "port"
      [] n = "SUPERUSERS" -> "superusers"
      [] n = "API_ROOT" -> "api_root"
      [] n = "CUSTOM" -> "custom"
      [] n = "ENVIRONMENT" -> "environment"
      [] n = "DRIVER" -> "driver"
      [] OTHER -> n

\* {k.lower(): v for k, v in m.items()}; the inputs never hold two names that fold
\* to one, so the comprehension's iteration order does not matter
LowerKeys(m) ==
    [k \in {Lower(n) : n \in DOMAIN m} |->
        m[CHOOSE n \in DOMAIN m : Lower(n) = k]]

----------------------------------------------------------------------------
(* json.loads and the scalar conversions, on the strings the model uses *)

JsonValid(s) ==
    s \in {"9000", "7000", "6000", "[\"12345\"]", "[\"678\"]",
           "{\"a\":\"x\"}", "{\"b\":\"y\"}", "{\"a\":\"w\"}"}

JsonLoads(s) ==
    CASE s = "9000" -> <<"int", 9000>>
      [] s = "7000" -> <<"int", 7000>>
      [] s = "6000" -> <<"int", 6000>>
      [] s = "[\"12345\"]" -> <<"list", <<"12345">>>>
      [] s = "[\"678\"]" -> <<"list", <<"678">>>>
      [] s = "{\"a\":\"x\"}" -> <<"dict", [a |-> Str("x")]>>
      [] s = "{\"b\":\"y\"}" -> <<"dict", [b |-> Str("y")]>>
      [] s = "{\"a\":\"w\"}" -> <<"dict", [a |-> Str("w")]>>

\* int(s) succeeds
IsIntStr(s) == s \in {"9000", "7000", "6000", "5000", "8080"}

StrToInt(s) ==
    CASE s = "9000" -> 9000
      [] s = "7000" -> 7000
      [] s = "6000" -> 6000
      [] s = "5000" -> 5000
      [] s = "8080" -> 8080

\* str(n)
IntToStr(n) ==
    CASE n = 9000 -> "9000"
      [] n = 7000 -> "7000"
      [] n = 6000 -> "6000"
      [] n = 5000 -> "5000"
      [] n = 8080 -> "8080"

Range(seq) == {seq[i] : i \in DOMAIN seq}


----------------------------------------------------------------------------
(* The schemas: the declared fields of Env and of Config, in declaration    *)
(* order.  type is the declared annotation: "str", "int", "set" (Set[str]) *)
(* or "dict" (Dict[str, str]).                                             *)

EnvFields ==
    << [name |-> "environment", type |-> "str", default |-> Str("prod")] >>

ConfigFields ==
    << [name |-> "driver", type |-> "str",
        default |-> Str("nonebot.drivers.fastapi")],
       [name |-> "port", type |-> "int", default |-> <<"int", 8080>>],
       [name |-> "api_root", type |-> "dict", default |-> <<"dict", EmptyDict>>],
       [name |-> "superusers", type |-> "set", default |-> <<"set", {}>>] >>

FieldNames(fields) == {fields[i].name : i \in DOMAIN fields}

\* field.is_complex(): the value arrives JSON-encoded
IsComplex(field) == field.type \in {"set", "dict"}

\* field.field_info.extra["env_names"]: no env_prefix and case-insensitive, so the
\* one name is the field's own, lower-cased
EnvName(field) == Lower(field.name)

----------------------------------------------------------------------------
(* Paths of dotenv files: a path is the sequence of the pieces it was       *)
(* formatted from, so f".env.{e}" differs for every e and from ".env".     *)

DotEnv == <<".env">>

EnvFilePath(e) == <<".env.", e>>

PathOf(s) == <<s>>

\* Path(env_file).is_file()
IsFile(path) == path \in DOMAIN files

\* variant: the file's keys are kept as written
ReadEnvFile_CaseKept(path) == files[path]

\* read_env_file(env_path, case_sensitive=False)
ReadEnvFile(path) == LowerKeys(files[path])

----------------------------------------------------------------------------
(* CustomEnvSettings.__call__ *)

\* lines 35-38: Config.case_sensitive is False
LiveEnvVars == LowerKeys(environ)

\* lines 40-49
EnvFileVars(env_file) ==
    IF env_file # None /\ IsFile(env_file) THEN ReadEnvFile(env_file) ELSE EmptyDict

\* variant: the file's value wins over the live variable of the same name
EnvVars_FileFirst(env_file) == Merge(LiveEnvVars, EnvFileVars(env_file))

\* line 50, taken only when the file was read; merging the empty dict is the same
EnvVars(env_file) == Merge(EnvFileVars(env_file), LiveEnvVars)

\* variant: an empty string counts as no value
NoValue_OrEmpty(env_val) == env_val = None \/ env_val = Str("")

\* line 61: the tier has nothing for the field
NoValue(env_val) == env_val = None

\* variant: a complex field whose raw value does not parse keeps the raw string
FieldValue_Lenient(field, env_val) ==
    IF IsComplex(field) /\ JsonValid(env_val[2])
    THEN [ok |-> TRUE, val |-> JsonLoads(env_val[2])]
    ELSE [ok |-> TRUE, val |-> env_val]

\* lines 64-71: what the tier stores for a field whose raw value is env_val
FieldValue(field, env_val) ==
    IF IsComplex(field)
    THEN IF JsonValid(env_val[2])
         THEN [ok |-> TRUE, val |-> JsonLoads(env_val[2])]
         ELSE [ok |-> FALSE, val |-> None]
    ELSE [ok |-> TRUE, val |-> env_val]

\* lines 52-71: the loop over the declared fields, from field i on
RECURSIVE FieldLoop(_, _, _, _, _)
FieldLoop(fields, i, env_vars, env_file_vars, d) ==
    IF i > Len(fields)
    THEN [ok |-> TRUE, error |-> "", key |-> "", d |-> d, rest |-> env_file_vars]
    ELSE LET field == fields[i]
             env_name == EnvName(field)
             env_val == Get(env_vars, env_name)
             rest == IF env_name \in DOMAIN env_file_vars
                     THEN Del(env_file_vars, env_name)
                     ELSE env_file_vars
         IN  IF NoValue(env_val)
             THEN FieldLoop(fields, i + 1, env_vars, rest, d)
             ELSE LET fv == FieldValue(field, env_val)
                  IN  IF fv.ok
                      THEN FieldLoop(fields, i + 1, env_vars, rest,
                                     Put(d, field.name, fv.val))
                      ELSE [ok |-> FALSE, error |-> "SettingsError",
                            key |-> env_name, d |-> EmptyDict, rest |-> rest]

\* `if env_val:` on an Optional[str]
Truthy(v) == v # None /\ v # Str("")

\* variant: the live variable wins whenever there is one
ExtraRaw_LiveFirst(env_name, file_val, env_vars) ==
    IF env_name \in DOMAIN env_vars THEN env_vars[env_name] ELSE file_val

\* lines 75-77: the raw value an unclaimed file key contributes
ExtraRaw(env_name, file_val, env_vars) ==
    IF (file_val = None \/ file_val = Str("")) /\ env_name \in DOMAIN env_vars
    THEN env_vars[env_name]
    ELSE file_val

\* lines 78-82: json_loads, keeping the raw string when it does not parse
ExtraDecode(env_val) ==
    IF Truthy(env_val) /\ JsonValid(env_val[2]) THEN JsonLoads(env_val[2]) ELSE env_val

\* lines 73-84
Extras(env_file_vars, env_vars) ==
    [env_name \in DOMAIN env_file_vars |->
        ExtraDecode(ExtraRaw(env_name, env_file_vars[env_name], env_vars))]

\* the whole call: [ok, error, key, d]
CustomEnvSettings(fields, env_file) ==
    LET env_vars == EnvVars(env_file)
        loop == FieldLoop(fields, 1, env_vars, EnvFileVars(env_file), EmptyDict)
    IN  IF loop.ok
        THEN [ok |-> TRUE, error |-> "", key |-> "",
              d |-> Merge(loop.d, Extras(loop.rest, env_vars))]
        ELSE [ok |-> FALSE, error |-> loop.error, key |-> loop.key, d |-> EmptyDict]

----------------------------------------------------------------------------
(* BaseSettings: the sources customise_sources ranks, merged and validated *)

\* pydantic's deep_update(mapping, updating): updating wins key by key, and two
\* dict values under one key are merged the same way
RECURSIVE DeepUpdate(_, _)
DeepUpdate(mapping, updating) ==
    [k \in (DOMAIN mapping) \cup (DOMAIN updating) |->
        IF k \notin DOMAIN updating THEN mapping[k]
        ELSE IF k \in DOMAIN mapping /\ Kind(mapping[k]) = "dict"
                /\ Kind(updating[k]) = "dict"
             THEN <<"dict", DeepUpdate(mapping[k][2], updating[k][2])>>
             ELSE updating[k]]

\* customise_sources returns (init_settings, CustomEnvSettings, InitSettingsSource(
\* common_config), file_secret_settings), the first ranked highest; no secrets
\* directory is configured, so the last source is empty
BuildValues(init_kwargs, env_d, common_config) ==
    DeepUpdate(DeepUpdate(DeepUpdate(EmptyDict, common_config), env_d), init_kwargs)

\* the declared type's validator: [ok, val]
Validate(type, v) ==
    CASE type = "str" ->
            IF Kind(v) = "str" THEN [ok |-> TRUE, val |-> v]
            ELSE IF Kind(v) = "int" THEN [ok |-> TRUE, val |-> Str(IntToStr(v[2]))]
            ELSE [ok |-> FALSE, val |-> None]
      [] type = "int" ->
            IF Kind(v) = "int" THEN [ok |-> TRUE, val |-> v]
            ELSE IF Kind(v) = "str" /\ IsIntStr(v[2])
                 THEN [ok |-> TRUE, val |-> <<"int", StrToInt(v[2])>>]
            ELSE [ok |-> FALSE, val |-> None]
      [] type = "set" ->
            IF Kind(v) = "set" THEN [ok |-> TRUE, val |-> v]
            ELSE IF Kind(v) = "list" THEN [ok |-> TRUE, val |-> <<"set", Range(v[2])>>]
            ELSE [ok |-> FALSE, val |-> None]
      [] type = "dict" ->
            IF Kind(v) = "dict" /\ \A k \in DOMAIN v[2] : Kind(v[2][k]) = "str"
            THEN [ok |-> TRUE, val |-> v]
            ELSE [ok |-> FALSE, val |-> None]

\* the fields whose merged value the validator rejects
Invalid(fields, values) ==
    {i \in DOMAIN fields :
        /\ fields[i].name \in DOMAIN values
        /\ ~Validate(fields[i].type, values[fields[i].name]).ok}

\* validate_model with extra = "allow": declared fields validated or defaulted,
\* every other key kept as it is
Validated(fields, values) ==
    [k \in FieldNames(fields) \cup DOMAIN values |->
        IF k \in FieldNames(fields)
        THEN LET f == fields[CHOOSE i \in DOMAIN fields : fields[i].name = k]
             IN  IF k \in DOMAIN values THEN Validate(f.type, values[k]).val
                 ELSE f.default
        ELSE values[k]]

\* BaseSettings.__init__(**init_kwargs, _env_file=env_file) for a schema:
\* [ok, error, key, d, tier]; tier is what CustomEnvSettings returned
Settings(fields, init_kwargs, common_config, env_file) ==
    LET tier == CustomEnvSettings(fields, env_file)
        values == BuildValues(init_kwargs, tier.d, common_config)
        bad == Invalid(fields, values)
    IN  IF ~tier.ok
        THEN [ok |-> FALSE, error |-> tier.error, key |-> tier.key,
              d |-> EmptyDict, tier |-> tier]
        ELSE IF bad # {}
        THEN [ok |-> FALSE, error |-> "ValidationError",
              key |-> fields[CHOOSE i \in bad : \A j \in bad : i <= j].name,
              d |-> EmptyDict, tier |-> tier]
        ELSE [ok |-> TRUE, error |-> "", key |-> "",
              d |-> Validated(fields, values), tier |-> tier]

\* Env(): no init arguments, Config.env_file = ".env"
Env == Settings(EnvFields, EmptyDict, EmptyDict, DotEnv)

\* Config(**kwargs, _common_config=common_config, _env_file=env_file)
Config(kwargs, common_config, env_file) ==
    Settings(ConfigFields, kwargs, common_config, env_file)

\* _env_file or f".env.{env.environment}"
ConfigEnvFile(_env_file, env) ==
    IF Truthy(_env_file) THEN PathOf(_env_file[2])
    ELSE EnvFilePath(env["environment"][2])

----------------------------------------------------------------------------
(* The driver selector "<module>[:<attribute path>]" and what it names *)

\* str.partition(":") on the selectors the model uses: <<head, sep, tail>>
Partition(s) ==
    CASE s = "mydrivers:Broken" -> <<"mydrivers", ":", "Broken">>
      [] s = "mydrivers:Nope" -> <<"mydrivers", ":", "Nope">>
      [] s = "mydrivers:ns.Quiet" -> <<"mydrivers", ":", "ns.Quiet">>
      [] s = "mydrivers:ns" -> <<"mydrivers", ":", "ns">>
      [] OTHER -> <<s, "", "">>

\* str.split(".") on the attribute paths the model uses
SplitDots(s) ==
    CASE s = "ns.Quiet" -> <<"ns", "Quiet">>
      [] OTHER -> <<s>>

\* a class object: whether its constructor returns, and the truth value of its
\* instances (a class that defines __bool__ or __len__ may make them false)
Class(name, constructs, truthy) ==
    [kind |-> "class", name |-> name, constructs |-> constructs,
     truthy |-> truthy, attrs |-> EmptyDict]

Namespace(attrs) ==
    [kind |-> "namespace", name |-> "", constructs |-> FALSE,
     truthy |-> TRUE, attrs |-> attrs]

\* what importlib.import_module can import: the stock driver, and a user module
\* with a class whose constructor raises and a class whose instances are false
Importable ==
    [m \in {"nonebot.drivers.fastapi", "mydrivers"} |->
        IF m = "mydrivers"
        THEN Namespace([a \in {"Broken", "ns"} |->
                IF a = "Broken" THEN Class("Broken", FALSE, TRUE)
                ELSE Namespace([b \in {"Quiet"} |-> Class("Quiet", TRUE, FALSE)])])
        ELSE Namespace([a \in {"Driver"} |-> Class("Driver", TRUE, TRUE)])]

\* lines 243-244: getattr along the path, from path[i] on
RECURSIVE GetAttrs(_, _, _)
GetAttrs(instance, path, i) ==
    IF i > Len(path) THEN [ok |-> TRUE, obj |-> instance]
    ELSE IF path[i] \in DOMAIN instance.attrs
         THEN GetAttrs(instance.attrs[path[i]], path, i + 1)
         ELSE [ok |-> FALSE, obj |-> instance]

\* lines 240-245: [ok, error, cls]
DriverClass(driver) ==
    LET parts == Partition(driver)
        modulename == parts[1]
        cls == parts[3]
        path == SplitDots(IF cls # "" THEN cls ELSE "Driver")
    IN  IF modulename \notin DOMAIN Importable
        THEN [ok |-> FALSE, error |-> "ModuleNotFoundError", cls |-> Namespace(EmptyDict)]
        ELSE LET got == GetAttrs(Importable[modulename], path, 1)
             IN  IF got.ok THEN [ok |-> TRUE, error |-> "", cls |-> got.obj]
                 ELSE [ok |-> FALSE, error |-> "AttributeError", cls |-> got.obj]

----------------------------------------------------------------------------
(* The module state *)

Obj(i) == <<"obj", i>>

\* line 225: `not _driver`
NotDriver ==
    _driver = None \/ ~heap[_driver[2]].truthy

\* line 74: `_driver is None`
DriverIsNone == _driver = None

\* the bots dict of the driver object i
Bots(i) == heap[i].bots

Result(op, arg, outcome, val) ==
    [op |-> op, arg |-> arg, outcome |-> outcome, val |-> val,
     prev |-> _driver, called |-> FALSE]

NoObs ==
    [entered |-> FALSE, _env_file |-> None, kwargs |-> EmptyDict,
     env |-> EmptyDict, env_file |-> DotEnv,
     config |-> [ok |-> FALSE, error |-> "", key |-> "", d |-> EmptyDict,
                 tier |-> [ok |-> FALSE, error |-> "", key |-> "", d |-> EmptyDict]]]

\* the bounds of the model
MaxDrivers == 2

MaxIds == 2

BotIdPool == <<"X", "Y", "Z", "W">>

BotIds == {BotIdPool[i] : i \in 1..MaxIds}

BotObjects == {"b1", "b2"}

----------------------------------------------------------------------------
(* init *)

\* lines 240-246: the driver class is looked up and called
InitDriver(env, env_file, config, dc) ==
    [env |-> env.d, env_file |-> env_file, config |-> config, cls |-> dc.cls,
     called |-> dc.ok,
     error |-> IF ~dc.ok THEN dc.error
               ELSE IF dc.cls.kind # "class" THEN "TypeError"
               ELSE IF ~dc.cls.constructs THEN "ConstructorError"
               ELSE ""]

\* a failed Config(...) ends the call before line 240
InitConfigured(env, env_file, config) ==
    InitDriver(env, env_file, config,
               IF config.ok THEN DriverClass(config.d["driver"][2])
               ELSE [ok |-> FALSE, error |-> config.error,
                     cls |-> Namespace(EmptyDict)])

\* lines 228-230
InitEnv(_env_file, kwargs, env, env_file) ==
    InitConfigured(env, env_file, Config(kwargs, env.d, env_file))

\* lines 226-245 of one call: everything init computes before line 246's call
InitRun(_env_file, kwargs) ==
    InitEnv(_env_file, kwargs, Env, ConfigEnvFile(_env_file, Env.d))

\* line 246: the object DriverClass(env, config) returns
NewDriver(r) ==
    [cls |-> r.cls.name, truthy |-> r.cls.truthy, env |-> r.env,
     config |-> r.config.d, bots |-> <<>>]

\* variant: the global is assigned before the constructor has returned
Stores_BeforeReturn(r) == r.error \in {"", "ConstructorError"}

\* line 246 is reached and assigns the global
Stores(r) == r.error = ""

init(_env_file, kwargs) ==
    /\ pc = "idle"
    /\ NotDriver => allocs < MaxDrivers
    /\ IF NotDriver
       THEN \E r \in {InitRun(_env_file, kwargs)} :
                /\ obs' = [entered |-> TRUE, _env_file |-> _env_file,
                           kwargs |-> kwargs, env |-> r.env,
                           env_file |-> r.env_file, config |-> r.config]
                /\ IF Stores(r)
                   THEN /\ allocs' = allocs + 1
                        /\ heap' = (allocs + 1 :> NewDriver(r))
                        /\ _driver' = Obj(allocs + 1)
                   ELSE UNCHANGED <<allocs, heap, _driver>>
                /\ last' = [Result("init", None,
                                   IF r.error = "" THEN "return" ELSE r.error,
                                   None) EXCEPT !.called = r.called]
       ELSE /\ UNCHANGED <<obs, allocs, heap, _driver>>
            /\ last' = Result("init", None, "return", None)
    /\ UNCHANGED <<environ, files, pc, frame>>

----------------------------------------------------------------------------
(* The accessors *)

\* lines 74-76: [outcome, val]
GetDriver ==
    IF DriverIsNone THEN [outcome |-> "ValueError", val |-> None]
    ELSE [outcome |-> "return", val |-> _driver]

\* lines 194-195: the driver's own bots dict, by reference
GetBots ==
    LET driver == GetDriver
    IN  IF driver.outcome # "return" THEN driver
        ELSE [outcome |-> "return", val |-> <<"bots", driver.val[2]>>]

get_driver ==
    /\ pc = "idle"
    /\ last' = Result("get_driver", None, GetDriver.outcome, GetDriver.val)
    /\ UNCHANGED <<environ, files, _driver, heap, allocs, obs, pc, frame>>

get_bots ==
    /\ pc = "idle"
    /\ last' = Result("get_bots", None, GetBots.outcome, GetBots.val)
    /\ UNCHANGED <<environ, files, _driver, heap, allocs, obs, pc, frame>>

IdleFrame == [self_id |-> None, bots |-> 0, used |-> 0, seen |-> {}]

\* the bot objects a registry holds
Values(bots) == {bots[i].bot : i \in DOMAIN bots}

Has(bots, id) == \E i \in DOMAIN bots : bots[i].id = id

\* variant: the id is ignored and the first registered bot is returned
Lookup_First(bots, self_id) ==
    IF Len(bots) > 0
    THEN [outcome |-> "return", val |-> <<"bot", bots[1].bot>>]
    ELSE [outcome |-> "KeyError", val |-> None]

\* line 165: bots[self_id]
Lookup(bots, self_id) ==
    IF Has(bots, self_id)
    THEN [outcome |-> "return",
          val |-> <<"bot", bots[CHOOSE i \in DOMAIN bots : bots[i].id = self_id].bot>>]
    ELSE [outcome |-> "KeyError", val |-> None]

\* lines 167-170: the first step of the iterator made when the dict held `used`
\* entries; a dict whose size has changed since makes the step raise
IterNext(bots, used) ==
    IF Len(bots) # used THEN [outcome |-> "RuntimeError", val |-> None]
    ELSE IF Len(bots) = 0 THEN [outcome |-> "ValueError", val |-> None]
    ELSE [outcome |-> "return", val |-> <<"bot", bots[1].bot>>]

\* the call is made
get_bot_call(self_id) ==
    /\ pc = "idle"
    /\ pc' = "L163"
    /\ frame' = [IdleFrame EXCEPT !.self_id = self_id,
                    !.seen = IF DriverIsNone THEN {} ELSE Values(Bots(_driver[2]))]
    /\ last' = Result("get_bot", self_id, "running", None)
    /\ UNCHANGED <<environ, files, _driver, heap, allocs, obs>>

\* line 163: bots = get_bots()
get_bot_L163 ==
    /\ pc = "L163"
    /\ IF GetBots.outcome = "return"
       THEN /\ pc' = "L164"
            /\ frame' = [frame EXCEPT !.bots = GetBots.val[2]]
            /\ last' = Result("get_bot", frame.self_id, "running", None)
       ELSE /\ pc' = "idle"
            /\ frame' = IdleFrame
            /\ last' = Result("get_bot", frame.self_id, GetBots.outcome, None)
    /\ UNCHANGED <<environ, files, _driver, heap, allocs, obs>>

\* lines 164-165, or the iterator of line 167 is made
get_bot_L164 ==
    /\ pc = "L164"
    /\ IF frame.self_id # None
       THEN LET r == Lookup(Bots(frame.bots), frame.self_id[2])
            IN  /\ pc' = "idle"
                /\ frame' = [IdleFrame EXCEPT !.seen = frame.seen]
                /\ last' = Result("get_bot", frame.self_id, r.outcome, r.val)
       ELSE /\ pc' = "L167"
            /\ frame' = [frame EXCEPT !.used = Len(Bots(frame.bots))]
            /\ last' = Result("get_bot", frame.self_id, "running", None)
    /\ UNCHANGED <<environ, files, _driver, heap, allocs, obs>>

\* lines 167-170
get_bot_L167 ==
    /\ pc = "L167"
    /\ LET r == IterNext(Bots(frame.bots), frame.used)
       IN  /\ pc' = "idle"
           /\ frame' = [IdleFrame EXCEPT !.seen = frame.seen]
           /\ last' = Result("get_bot", frame.self_id, r.outcome, r.val)
    /\ UNCHANGED <<environ, files, _driver, heap, allocs, obs>>

----------------------------------------------------------------------------
(* The driver's side of the registry: nonebot.drivers keeps the dict that   *)
(* get_bots returns and is the only writer of it.                          *)

\* bots[id] = bot: a new key goes last, a known key keeps its place
SetItem(bots, id, bot) ==
    IF Has(bots, id)
    THEN [i \in DOMAIN bots |->
            IF bots[i].id = id THEN [id |-> id, bot |-> bot] ELSE bots[i]]
    ELSE Append(bots, [id |-> id, bot |-> bot])

\* del bots[id]
DelItem(bots, id) ==
    LET k == CHOOSE i \in DOMAIN bots : bots[i].id = id
    IN  [i \in 1..(Len(bots) - 1) |-> IF i < k THEN bots[i] ELSE bots[i + 1]]

\* a peer connects
bot_connect(id, bot) ==
    /\ ~DriverIsNone
    /\ heap' = [heap EXCEPT ![_driver[2]].bots = SetItem(@, id, bot)]
    /\ frame' = IF pc = "idle" THEN frame
                ELSE [frame EXCEPT !.seen = @ \cup {bot}]
    /\ last' = Result("bot_connect", Str(id), "return", None)
    /\ UNCHANGED <<environ, files, _driver, allocs, obs, pc>>

\* a peer disconnects
bot_disconnect(id) ==
    /\ ~DriverIsNone
    /\ Has(Bots(_driver[2]), id)
    /\ heap' = [heap EXCEPT ![_driver[2]].bots = DelItem(@, id)]
    /\ last' = Result("bot_disconnect", Str(id), "return", None)
    /\ UNCHANGED <<environ, files, _driver, allocs, obs, pc, frame>>

----------------------------------------------------------------------------
(* The inputs *)

\* a one-entry dict, or the empty one when v is Absent
Absent == <<"absent">>

Entry(name, v) == IF v = Absent THEN EmptyDict ELSE (name :> v)

\* the files with at least one line
Existing(fs) == [p \in {q \in DOMAIN fs : fs[q] # EmptyDict} |-> fs[p]]

SelfIds == {None} \cup {Str(id) : id \in BotIds}

BootEnvirons == {EmptyDict, Entry("SUPERUSERS", Str("notjson"))}

BootDrivers ==
    {"nonebot.drivers.missing", "mydrivers", "mydrivers:Nope", "mydrivers:ns",
     "mydrivers:Broken", "mydrivers:ns.Quiet"}

BootKwargs == {EmptyDict} \cup {Entry("driver", Str(s)) : s \in BootDrivers}

\* the raw strings the live environment, .env and .env.prod may hold under a name
RawStrings(name) ==
    CASE Lower(name) = "port" -> {"", "9000", "7000"}
      [] Lower(name) = "superusers" -> {"", "notjson", "[\"12345\"]"}
      [] Lower(name) = "api_root" -> {"", "{\"a\":\"x\"}", "{\"b\":\"y\"}"}
      [] Lower(name) = "custom" -> {"", "notjson", "9000"}

\* the raw string .env.dev may hold under a name
DevString(name) ==
    CASE Lower(name) = "port" -> "6000"
      [] Lower(name) = "superusers" -> "[\"678\"]"
      [] Lower(name) = "api_root" -> "{\"a\":\"w\"}"
      [] Lower(name) = "custom" -> "7000"

\* the value init may be passed under a name
Typed(name) ==
    CASE Lower(name) = "port" -> <<"int", 5000>>
      [] Lower(name) = "superusers" -> <<"set", {"777"}>>
      [] Lower(name) = "api_root" -> <<"dict", [c |-> Str("z")]>>
      [] Lower(name) = "custom" -> Str("kw")

CfgNames == {"PORT", "SUPERUSERS", "API_ROOT", "CUSTOM"}

EnvValues(name) == {Absent} \cup {Str(s) : s \in RawStrings(name)}

\* a key written without "=" reads as None
FileValues(name) == EnvValues(name) \cup {None}

EnvironmentValues == {Absent, Str("dev")}

CfgKwargs ==
    UNION {{Merge(Entry(Lower(n), v), Entry("environment", e)) :
                v \in {Absent, Typed(n)}, e \in EnvironmentValues} : n \in CfgNames}

\* the keys, other than the environment's, that some source holds
SourceKeys ==
    (DOMAIN LiveEnvVars
        \cup UNION {DOMAIN ReadEnvFile(p) : p \in DOMAIN files}) \ {"environment"}

\* the calls the configuration runs make: arguments about the key the sources
\* are about, or a settings file of the caller's and no other argument
CfgCalls ==
    {c \in ({None} \X CfgKwargs) \cup {<<Str("custom.env"), EmptyDict>>} :
        \A k \in (DOMAIN c[2]) \ {"environment"} :
            SourceKeys = {} \/ k \in SourceKeys}

----------------------------------------------------------------------------
(* The specifications *)

InitState ==
    /\ _driver = None
    /\ heap = EmptyDict
    /\ allocs = 0
    /\ last = Result("import", None, "return", None)
    /\ obs = NoObs
    /\ pc = "idle"
    /\ frame = IdleFrame

\* start-up and the accessors, one call at a time
Init ==
    /\ environ \in BootEnvirons
    /\ files = EmptyDict
    /\ InitState

get_bot ==
    \/ \E self_id \in SelfIds : get_bot_call(self_id)
    \/ get_bot_L163
    \/ get_bot_L164
    \/ get_bot_L167

Next ==
    \/ \E kwargs \in BootKwargs : init(None, kwargs)
    \/ get_driver
    \/ get_bots
    \/ get_bot
    \/ \E id \in BotIds, bot \in BotObjects : pc = "idle" /\ bot_connect(id, bot)
    \/ \E id \in BotIds : pc = "idle" /\ bot_disconnect(id)

Spec == Init /\ [][Next]_vars

\* the driver's threads run while get_bot does
NextThreads ==
    \/ init(None, EmptyDict)
    \/ get_driver
    \/ get_bots
    \/ get_bot
    \/ \E id \in BotIds, bot \in BotObjects : bot_connect(id, bot)
    \/ \E id \in BotIds : bot_disconnect(id)

SpecThreads == Init /\ [][NextThreads]_vars

\* settings resolution: one init call on every combination of sources
InitConfig ==
    /\ \E n \in CfgNames :
       \E live \in EnvValues(n), common \in FileValues(n), prod \in FileValues(n),
          dev \in {Absent, Str(DevString(n))} :
       \E e1 \in EnvironmentValues, e2 \in EnvironmentValues :
          /\ environ = Merge(Entry(n, live), Entry("ENVIRONMENT", e1))
          /\ files = Existing([p \in {DotEnv, EnvFilePath("prod"), EnvFilePath("dev")} |->
                        IF p = DotEnv
                        THEN Merge(Entry(n, common), Entry("ENVIRONMENT", e2))
                        ELSE IF p = EnvFilePath("prod") THEN Entry(n, prod)
                        ELSE Entry(n, dev)])
    /\ InitState

NextConfig ==
    \E c \in CfgCalls : ~obs.entered /\ init(c[1], c[2])

SpecConfig == InitConfig /\ [][NextConfig]_vars

----------------------------------------------------------------------------
(* What the sources hold, read off the inputs *)

\* the live environment's string for a key, names compared case-insensitively
LiveRaw(k) ==
    IF \E n \in DOMAIN environ : Lower(n) = k
    THEN environ[CHOOSE n \in DOMAIN environ : Lower(n) = k]
    ELSE Absent

\* a file's value for a key: a string, None for a key without "=", or Absent
FileRaw(path, k) ==
    IF path \in DOMAIN files /\ \E n \in DOMAIN files[path] : Lower(n) = k
    THEN files[path][CHOOSE n \in DOMAIN files[path] : Lower(n) = k]
    ELSE Absent

\* the environment/file tier's raw value for a key: the live string, else the file's
TierRaw(k) ==
    IF LiveRaw(k) # Absent THEN LiveRaw(k)
    ELSE IF FileRaw(obs.env_file, k) \notin {Absent, None} THEN FileRaw(obs.env_file, k)
    ELSE Absent

\* a raw string as a field's tier value: JSON-decoded for a complex field
Decoded(f, raw) == IF IsComplex(f) THEN JsonLoads(raw[2]) ELSE raw

\* an undeclared key's value: the JSON it parses to, else the string itself
Lenient(raw) ==
    IF raw \notin {None, Str("")} /\ JsonValid(raw[2]) THEN JsonLoads(raw[2]) ELSE raw

\* init ran the main resolution, and it succeeded
Resolved == obs.entered /\ obs.config.ok

----------------------------------------------------------------------------
(* C2 *)

\* the values the sources provide for field f, highest rank first: the init
\* argument, the live variable, the settings file's line
C2_Ranked(f) ==
    (IF f.name \in DOMAIN obs.kwargs THEN <<obs.kwargs[f.name]>> ELSE <<>>)
    \o (IF LiveRaw(f.name) # Absent THEN <<Decoded(f, LiveRaw(f.name))>> ELSE <<>>)
    \o (IF LiveRaw(f.name) = Absent /\ TierRaw(f.name) # Absent
        THEN <<Decoded(f, TierRaw(f.name))>> ELSE <<>>)

C2_Common(f) ==
    IF FileRaw(DotEnv, f.name) = Absent THEN <<>>
    ELSE IF FileRaw(DotEnv, f.name) \in {None, Str("")} /\ LiveRaw(f.name) # Absent
         THEN <<Lenient(LiveRaw(f.name))>>
         ELSE <<Lenient(FileRaw(DotEnv, f.name))>>

\* the value a ranked list of provided values yields: the first, merged key by
\* key over what the rest yields when both are mappings
RECURSIVE C2_Fold(_)
C2_Fold(values) ==
    IF Len(values) = 1 THEN values[1]
    ELSE LET hi == values[1]
             lo == C2_Fold(Tail(values))
         IN  IF Kind(hi) = "dict" /\ Kind(lo) = "dict"
             THEN <<"dict", [x \in (DOMAIN hi[2]) \cup (DOMAIN lo[2]) |->
                                IF x \in DOMAIN hi[2] THEN hi[2][x] ELSE lo[2][x]]>>
             ELSE hi

----------------------------------------------------------------------------
(* C5 *)

\* the environment name by the documented precedence: init argument, live
\* variable, .env line, "prod"
C5_Environment ==
    IF "environment" \in DOMAIN obs.kwargs THEN obs.kwargs["environment"]
    ELSE IF LiveRaw("environment") # Absent THEN LiveRaw("environment")
    ELSE IF FileRaw(DotEnv, "environment") \notin {Absent, None}
         THEN FileRaw(DotEnv, "environment")
    ELSE Str("prod")

\* C5 as stated: an init call that is passed no settings file reads .env.<E>, E
\* being the environment name resolved in the order init argument > live variable
\* > .env line > "prod".
C5_AsStated ==
    (obs.entered /\ obs._env_file = None) =>
        obs.env_file = EnvFilePath(C5_Environment[2])

----------------------------------------------------------------------------
(* C6 *)

Declared(k) == k \in FieldNames(ConfigFields)

\* the raw names of a file's lines
Lines(path) == IF path \in DOMAIN files THEN DOMAIN files[path] ELSE {}

\* the raw name n is a key of the live environment and of no other source
OnlyLive(n) ==
    /\ n \in DOMAIN environ
    /\ Lower(n) \notin DOMAIN obs.kwargs
    /\ FileRaw(obs.env_file, Lower(n)) = Absent
    /\ FileRaw(DotEnv, Lower(n)) = Absent

\* the raw name n is a key of the settings file and of no other source
OnlyFile(n) ==
    /\ n \in Lines(obs.env_file)
    /\ Lower(n) \notin DOMAIN obs.kwargs
    /\ LiveRaw(Lower(n)) = Absent
    /\ FileRaw(DotEnv, Lower(n)) = Absent

\* C6 as stated: an undeclared key (other than the environment name) that only
\* the live environment or only the settings file holds is a key of the resolved
\* settings, under the very name it has in that source.
C6_AsStated ==
    Resolved =>
        \A n \in (DOMAIN environ) \cup Lines(obs.env_file) :
            (/\ ~Declared(Lower(n))
             /\ Lower(n) # "environment"
             /\ OnlyLive(n) \/ OnlyFile(n))
                => n \in DOMAIN obs.config.d

\* C6 (amended): every undeclared key of the settings file is a key of the
\* resolved settings under its lower-cased name; an undeclared key that only the
\* live environment holds is not carried over, under either name, unless it is
\* the environment name, which Env declares and hands on.
C6_Extras ==
    Resolved =>
        /\ \A n \in Lines(obs.env_file) :
               ~Declared(Lower(n)) => Lower(n) \in DOMAIN obs.config.d
        /\ \A n \in DOMAIN environ :
               (~Declared(Lower(n)) /\ OnlyLive(n) /\ Lower(n) # "environment")
                   => {n, Lower(n)} \cap DOMAIN obs.config.d = {}

\* the settings file alone holds CUSTOM, and the settings hold custom
C6_Witness ==
    /\ Resolved
    /\ OnlyFile("CUSTOM")
    /\ "custom" \in DOMAIN obs.config.d
    /\ "CUSTOM" \notin DOMAIN obs.config.d

----------------------------------------------------------------------------
(* C7 *)

\* the declared complex fields whose tier string is not JSON
C7_Offending ==
    {i \in DOMAIN ConfigFields :
        /\ IsComplex(ConfigFields[i])
        /\ TierRaw(ConfigFields[i].name) # Absent
        /\ ~JsonValid(TierRaw(ConfigFields[i].name)[2])}

\* C7: a declared complex field whose live or file string is not JSON fails the
\* whole resolution with the settings error naming that key; when every such
\* string is JSON the tier holds the decoded value, and with no init argument and
\* no .env line for the field the resolved value is that value in the declared
\* type.
C7_ComplexDecoding ==
    obs.entered =>
        /\ C7_Offending # {} =>
               /\ ~obs.config.ok
               /\ obs.config.error = "SettingsError"
               /\ \E i \in C7_Offending : obs.config.key = ConfigFields[i].name
        /\ C7_Offending = {} =>
               \A i \in DOMAIN ConfigFields :
                   LET f == ConfigFields[i]
                   IN  (IsComplex(f) /\ TierRaw(f.name) # Absent) =>
                         /\ obs.config.tier.ok
                         /\ obs.config.tier.d[f.name] = JsonLoads(TierRaw(f.name)[2])
                         /\ (/\ f.name \notin DOMAIN obs.kwargs
                             /\ FileRaw(DotEnv, f.name) = Absent) =>
                               /\ obs.config.ok
                               /\ obs.config.d[f.name] =
                                    Validate(f.type, JsonLoads(TierRaw(f.name)[2])).val

\* SUPERUSERS=notjson in the live environment has failed an init call
C7_Witness ==
    /\ obs.entered
    /\ LiveRaw("superusers") = Str("notjson")
    /\ obs.config.error = "SettingsError"
    /\ obs.config.key = "superusers"
    /\ _driver = None

----------------------------------------------------------------------------
(* C8 *)

\* the raw value the environment/file tier holds for a key: the live string,
\* else the file's value (None for a key without "="), else Absent
C8_Held(k) ==
    IF LiveRaw(k) # Absent THEN LiveRaw(k) ELSE FileRaw(obs.env_file, k)

\* C8 as stated: a declared field whose held value is absent or the empty string
\* is left out of the tier's mapping, and the tier does not fail over it.
C8_AsStated ==
    obs.entered =>
        \A i \in DOMAIN ConfigFields :
            LET f == ConfigFields[i]
            IN  C8_Held(f.name) \in {Absent, None, Str("")} =>
                    /\ obs.config.tier.key # f.name
                    /\ f.name \notin DOMAIN obs.config.tier.d

\* C8 (amended): a declared field for which the tier holds no value (no live
\* variable and no file line, or a file key without "=") is left out of the
\* tier's mapping, the tier does not fail over it, and with no init argument and
\* no .env line for it no failure names it and a successful resolution gives it
\* its default; the empty string is a value: the tier stores it as it is for a
\* scalar field and fails decoding it for a complex one.
C8_AbsentOrEmpty ==
    obs.entered =>
        \A i \in DOMAIN ConfigFields :
            LET f == ConfigFields[i]
            IN  /\ C8_Held(f.name) \in {Absent, None} =>
                      /\ obs.config.error # "SettingsError" \/ obs.config.key # f.name
                      /\ f.name \notin DOMAIN obs.config.tier.d
                      /\ (/\ f.name \notin DOMAIN obs.kwargs
                          /\ FileRaw(DotEnv, f.name) = Absent) =>
                            /\ obs.config.key # f.name
                            /\ obs.config.ok => obs.config.d[f.name] = f.default
                /\ (C8_Held(f.name) = Str("") /\ IsComplex(f)) =>
                      /\ obs.config.error = "SettingsError"
                      /\ obs.config.key = f.name
                /\ (C8_Held(f.name) = Str("") /\ ~IsComplex(f) /\ obs.config.tier.ok) =>
                      /\ f.name \in DOMAIN obs.config.tier.d
                      /\ obs.config.tier.d[f.name] = Str("")

\* the settings file holds PORT without a value and port resolves to its default
C8_Witness ==
    /\ Resolved
    /\ LiveRaw("port") = Absent
    /\ FileRaw(obs.env_file, "port") = None
    /\ "port" \notin DOMAIN obs.config.tier.d
    /\ obs.config.d["port"] = <<"int", 8080>>

----------------------------------------------------------------------------
(* C9 *)

\* the raw value chosen for a settings-file key no field claims
C9_Chosen(k) ==
    IF FileRaw(obs.env_file, k) \notin {None, Str("")} THEN FileRaw(obs.env_file, k)
    ELSE IF LiveRaw(k) # Absent THEN LiveRaw(k)
    ELSE FileRaw(obs.env_file, k)

\* C9: when the tier does not fail over a declared field, it holds, for every
\* settings-file key no declared field claims, the file's value if that is not
\* empty, else the live variable's if there is one, JSON-decoded when it parses
\* and as it is otherwise; the tier fails over declared fields only; and a key a
\* declared field claims is held as that field's value, not as an extra.
C9_FileExtras ==
    obs.entered =>
        /\ ~obs.config.tier.ok => Declared(obs.config.tier.key)
        /\ obs.config.tier.ok =>
             \A n \in Lines(obs.env_file) :
                IF Declared(Lower(n))
                THEN Lower(n) \in DOMAIN obs.config.tier.d =>
                        \E i \in DOMAIN ConfigFields :
                            /\ ConfigFields[i].name = Lower(n)
                            /\ obs.config.tier.d[Lower(n)] =
                                  Decoded(ConfigFields[i], TierRaw(Lower(n)))
                ELSE /\ Lower(n) \in DOMAIN obs.config.tier.d
                     /\ obs.config.tier.d[Lower(n)] = Lenient(C9_Chosen(Lower(n)))

\* the file's CUSTOM=notjson is kept although the live CUSTOM=9000 differs
C9_Witness ==
    /\ obs.entered
    /\ FileRaw(obs.env_file, "custom") = Str("notjson")
    /\ LiveRaw("custom") = Str("9000")
    /\ obs.config.tier.ok
    /\ obs.config.tier.d["custom"] = Str("notjson")

----------------------------------------------------------------------------
(* C1 *)

Accessors == {"get_driver", "get_bots", "get_bot"}

\* C1 as stated: once a driver is stored, an init call does not invoke the driver
\* constructor and leaves the stored driver in place, so the global is the first
\* driver object ever stored and get_driver returns it.
C1_AsStated ==
    /\ (last.op = "init" /\ last.prev # None) =>
           (~last.called /\ _driver = last.prev)
    /\ _driver # None => _driver = Obj(1)
    /\ (last.op = "get_driver" /\ last.outcome = "return") => last.val = Obj(1)

----------------------------------------------------------------------------
(* C3 *)

\* C3: while no init call has returned, the global is None, no driver object is
\* held, and get_driver, get_bots and get_bot end with ValueError and return
\* nothing; an init call that raises leaves the global as it was, and so does
\* every accessor; a stored driver is always an object whose constructor returned.
C3_NotInitialized ==
    /\ allocs = 0 =>
          /\ _driver = None
          /\ heap = EmptyDict
          /\ (last.op \in Accessors /\ last.outcome # "running") =>
                (last.outcome = "ValueError" /\ last.val = None)
    /\ (last.op = "init" /\ last.outcome # "return") => _driver = last.prev
    /\ last.op \in Accessors => _driver = last.prev
    /\ _driver # None =>
          /\ _driver[2] \in DOMAIN heap
          /\ heap[_driver[2]].cls \in {"Driver", "Quiet"}

\* an init call has raised, and get_bot then ended with ValueError
C3_Witness ==
    /\ allocs = 0
    /\ obs.entered
    /\ _driver = None
    /\ last.op = "get_bot"
    /\ last.arg # None
    /\ last.outcome = "ValueError"

----------------------------------------------------------------------------
(* C4 *)

\* the registry of the stored driver
C4_Registry == Bots(_driver[2])

\* C4: with a driver stored, get_bot(id) returns the peer the registry holds
\* under id and ends with KeyError when it holds none; get_bot() ends with
\* ValueError exactly when the registry is empty and otherwise returns a peer the
\* registry holds.
C4_GetBot ==
    (last.op = "get_bot" /\ last.outcome # "running" /\ _driver # None) =>
        IF last.arg # None
        THEN IF \E i \in DOMAIN C4_Registry : C4_Registry[i].id = last.arg[2]
             THEN /\ last.outcome = "return"
                  /\ \E i \in DOMAIN C4_Registry :
                        /\ C4_Registry[i].id = last.arg[2]
                        /\ last.val = <<"bot", C4_Registry[i].bot>>
             ELSE last.outcome = "KeyError"
        ELSE /\ (last.outcome = "ValueError") <=> (C4_Registry = <<>>)
             /\ C4_Registry # <<>> =>
                   /\ last.outcome = "return"
                   /\ \E i \in DOMAIN C4_Registry :
                         last.val = <<"bot", C4_Registry[i].bot>>

\* two peers are registered and get_bot("Y") has returned the second
C4_Witness ==
    /\ _driver # None
    /\ Len(C4_Registry) = 2
    /\ C4_Registry[2].id = "Y"
    /\ last.op = "get_bot"
    /\ last.arg = Str("Y")
    /\ last.outcome = "return"
    /\ last.val = <<"bot", C4_Registry[2].bot>>
    /\ C4_Registry[1].bot # C4_Registry[2].bot

----------------------------------------------------------------------------
(* C10 *)

\* C10 as stated: whatever the driver does to the registry while get_bot or
\* get_bots runs, the call returns (a peer registered at some point during the
\* call) or ends with the documented KeyError or ValueError.
C10_AsStated ==
    last.op \in {"get_bot", "get_bots"} =>
        /\ last.outcome \in {"running", "return", "KeyError", "ValueError"}
        /\ (last.op = "get_bot" /\ last.outcome = "return") =>
               last.val[2] \in frame.seen

=============================================================================
